---- MODULE Spec2Model ----
(***************************************************************************)
(* Model of the duckex bridge (native/duckex): the fixed-capacity          *)
(* statement cache (cache.rs) and the line-oriented dispatch loop          *)
(* (main.rs).  The query engine is an external collaborator: whether it    *)
(* prepares or executes a statement successfully is chosen                 *)
(* nondeterministically.                                                   *)
(***************************************************************************)
EXTENDS Integers, Sequences, FiniteSets, TLC

\* ---------------------------------------------------------------- bounds
Capacity == 3      \* slots of the cache (main.rs uses 1024)
MaxLines == 7      \* input lines read before the input stream closes
MaxCols  == 2      \* columns of a result set the engine may report
MaxRows  == 1      \* rows of a result set the engine may report
MaxParams == 2     \* parameters of one command
Width    == 3      \* bits of the integers standing for i64 and u64

\* ---------------------------------------------------------------- Option<T>
None    == << >>
Some(x) == << x >>

\* ---------------------------------------------------------------- cache.rs
\* Cache::with_capacity: `capacity` empty slots, cursor 0
with_capacity(capacity) ==
    [storage |-> [i \in 0 .. capacity - 1 |-> None], idx |-> 0]

\* mutant of the scan loop: idx is not taken modulo the length, the scan
\* ends at the last slot
RECURSIVE scanNoWrap(_, _, _)
scanNoWrap(storage, start, i) ==
    IF storage[i] = None
    THEN Some(i)
    ELSE IF i + 1 = Cardinality(DOMAIN storage)
         THEN None ELSE scanNoWrap(storage, start, i + 1)

\* the `while let Some(_) = self.storage[idx]` loop of Cache::store, entered
\* at slot i with the scan having started at `start`; None when the scan
\* comes back to `start`
RECURSIVE scan(_, _, _)
scan(storage, start, i) ==
    IF storage[i] = None
    THEN Some(i)
    ELSE LET j == (i + 1) % Cardinality(DOMAIN storage)
         IN  IF j = start THEN None ELSE scan(storage, start, j)

\* the number of slots the scan loop of Cache::store reads, entered at
\* slot i with the scan having started at `start`
RECURSIVE examined(_, _, _)
examined(storage, start, i) ==
    IF storage[i] = None
    THEN 1
    ELSE LET j == (i + 1) % Cardinality(DOMAIN storage)
         IN  IF j = start THEN 1 ELSE 1 + examined(storage, start, j)

\* mutants of Cache::store
storeNoScan(cache, data) ==
    [cache  |-> [cache EXCEPT !.storage[cache.idx] = Some(data)],
     handle |-> Some(cache.idx)]

storeOverwriteWhenFull(cache, data) ==
    LET found == scan(cache.storage, cache.idx, cache.idx)
        at    == IF found = None THEN cache.idx ELSE found[1]
    IN  [cache  |-> [cache EXCEPT !.storage[at] = Some(data)],
         handle |-> found]

storeGrowWhenFull(cache, data) ==
    LET found == scan(cache.storage, cache.idx, cache.idx)
        n     == Cardinality(DOMAIN cache.storage)
    IN  IF found = None
        THEN [cache  |-> [cache EXCEPT !.storage =
                            [i \in 0 .. n |-> IF i = n THEN Some(data)
                                              ELSE cache.storage[i]]],
              handle |-> Some(n)]
        ELSE [cache  |-> [cache EXCEPT !.storage[found[1]] = Some(data)],
              handle |-> found]

\* Cache::store: the cache after the call and the returned Option<u32>.
\* self.idx is read but never assigned.
store(cache, data) ==
    LET found == scan(cache.storage, cache.idx, cache.idx)
    IN  IF found = None
        THEN [cache |-> cache, handle |-> None]
        ELSE [cache  |-> [cache EXCEPT !.storage[found[1]] = Some(data)],
              handle |-> found]

\* `self.storage[idx]` panics when idx is not below the length of the Vec
inBounds(cache, i) == i \in DOMAIN cache.storage

\* Cache::remove, for an index within bounds
remove(cache, i) == [cache EXCEPT !.storage[i] = None]

\* Cache::get_mut, for an index within bounds
get_mut(cache, i) == cache.storage[i]

\* ---------------------------------------------------------------- main.rs
\* serde_json values that occur in responses
JsonNull      == [t |-> "null", v |-> 0]
JsonNumber(n) == [t |-> "number", v |-> n]

\* `id.into()` of an Option<u32>: None is JSON null, Some(n) a number
OptionToJson(opt) == IF opt = None THEN JsonNull ELSE JsonNumber(opt[1])

\* enum Response
ResponseOk(columns, rows, num_rows) ==
    [status |-> "ok", columns |-> columns, rows |-> rows,
     num_rows |-> num_rows, message |-> ""]

\* Response::empty
ResponseEmpty == ResponseOk(<< >>, << >>, 0)

\* Response::error
ResponseError(message) ==
    [status |-> "error", columns |-> << >>, rows |-> << >>,
     num_rows |-> 0, message |-> message]

\* Display for SQLError (the engine's own diagnostic text is left out)
ExecutionMsg         == "SQL execution error"
PreparationMsg       == "SQL preparation error"
RowProcessingMsg     == "SQL row processing error"
InvalidCacheIndexMsg == "Invalid cache index"
UnsupportedMsg       == "Feature not supported"

\* panic messages
IndexPanic   == "index out of bounds"
ReadPanic    == "Couldn't read input string"
DecodePanic  == "Couldn't decode message"
WritePanic   == "Unexpected error"

\* ---------------------------------------------------------------- engine
\* SQL texts a client sends in Prepare; the second one is malformed
Queries   == {"SELECT 1 AS x", "SELEKT 1"}
Malformed == {"SELEKT 1"}

\* outcomes of Connection::prepare: malformed SQL never prepares, any other
\* statement may still be refused by the engine
PrepareOutcomes(sql) == IF sql \in Malformed THEN {FALSE} ELSE BOOLEAN

\* outcomes of running a prepared statement: query_map fails ("exec_err"),
\* stepping to a row fails ("step_err"), or the statement yields nrows rows
\* of ncols columns, of which row.get converts the first `got` before its
\* first Err (got = ncols unless a value fails to convert)
ExecOutcomes ==
    { [kind |-> k, ncols |-> 0, nrows |-> 0, got |-> 0] :
         k \in {"exec_err", "step_err"} }
    \cup
    { o \in [kind : {"ok"}, ncols : 0 .. MaxCols, nrows : 0 .. MaxRows,
             got : 0 .. MaxCols] :
         /\ o.got <= o.ncols
         /\ o.nrows = 0 => o.got = o.ncols }

ColName(i) == << "c1", "c2", "c3", "c4" >>[i]

\* ---------------------------------------------------------------- handlers
\* fn execute: the response for a statement and an engine outcome
execute(stmt, o) ==
    IF o.kind = "exec_err" THEN ResponseError(ExecutionMsg)
    ELSE IF o.kind = "step_err" THEN ResponseError(RowProcessingMsg)
    ELSE ResponseOk([i \in 1 .. o.ncols |-> << ColName(i), "Integer" >>],
                    [r \in 1 .. o.nrows |->
                         [i \in 1 .. o.got |-> JsonNumber(stmt.id)]],
                    o.nrows)

\* mutant of fn prepare: a slot is taken before the engine is asked
prepareStoresFirst(cache, ok, stmt) ==
    LET s == store(cache, stmt)
    IN  IF ok
        THEN [cache |-> s.cache, handle |-> s.handle,
              response |-> ResponseOk(<< << "ref", "UInt32" >> >>,
                                      << << OptionToJson(s.handle) >> >>, 1)]
        ELSE [cache |-> s.cache, handle |-> None,
              response |-> ResponseError(PreparationMsg)]

\* fn prepare: `ok` is the engine's answer to conn.prepare(sql), `stmt` the
\* statement it made
prepare(cache, ok, stmt) ==
    IF ~ok
    THEN [cache |-> cache, handle |-> None,
          response |-> ResponseError(PreparationMsg)]
    ELSE LET s == store(cache, stmt)
         IN  [cache |-> s.cache, handle |-> s.handle,
              response |-> ResponseOk(<< << "ref", "UInt32" >> >>,
                                      << << OptionToJson(s.handle) >> >>, 1)]

\* mutant of fn simple_command: the outcome of stmt.execute is discarded
simple_commandSwallows(prepOk, execOk) ==
    IF ~prepOk THEN ResponseError(PreparationMsg) ELSE ResponseEmpty

\* fn simple_command: prepOk and execOk are the engine's answers to
\* conn.prepare(sql) and stmt.execute([])
simple_command(prepOk, execOk) ==
    IF ~prepOk THEN ResponseError(PreparationMsg)
    ELSE IF ~execOk THEN ResponseError(ExecutionMsg)
    ELSE ResponseEmpty

\* the engine failure, if any, behind an outcome
PrepareErr(ok) == IF ok THEN "none" ELSE "prepare"
ExecuteErr(o) ==
    CASE o.kind = "exec_err" -> "execute"
      [] o.kind = "step_err" -> "row"
      [] OTHER               -> "none"

\* mutant of the Close arm: an empty slot is reported as an error
closeResponseStrict(cache, stmt) ==
    IF cache.storage[stmt] = None
    THEN ResponseError(InvalidCacheIndexMsg) ELSE ResponseEmpty

\* the Close arm of main's match, after statements.remove(stmt) returned
closeResponse(cache, stmt) == ResponseEmpty

\* ---------------------------------------------------------------- engine calls
\* one call into the engine: the operation, the SQL text of the statement
\* it concerns and whether the engine returned Ok
EngineCall(op, sql, ok) == [op |-> op, sql |-> sql, ok |-> ok]

\* fn prepare calls conn.prepare(sql) once
prepareCalls(sql, ok) == << EngineCall("prepare", sql, ok) >>

\* fn simple_command calls conn.prepare(sql) and, if that returned Ok,
\* stmt.execute([]) on the statement just made
simple_commandCalls(sql, prepOk, execOk) ==
    << EngineCall("prepare", sql, prepOk) >>
    \o (IF prepOk THEN << EngineCall("execute", sql, execOk) >> ELSE << >>)

\* fn execute calls stmt.query_map, steps through the rows and calls
\* row.get for the columns 0, 1, ... of each row; only failing calls of
\* the stepping and of row.get below the column count are recorded
executeCalls(stmt, o) ==
    << EngineCall("query_map", stmt.query, o.kind # "exec_err") >>
    \o (IF o.kind = "step_err"
        THEN << EngineCall("next", stmt.query, FALSE) >> ELSE << >>)
    \o (IF o.kind = "ok" /\ o.got < o.ncols
        THEN << EngineCall("get", stmt.query, FALSE) >> ELSE << >>)

\* ---------------------------------------------------------------- parameters
\* ranges of i64 and u64, scaled to Width bits
I64Min == -(2 ^ (Width - 1))
I64Max == 2 ^ (Width - 1) - 1
U64Max == 2 ^ Width - 1

\* a JSON value as written on the line.  A number is its integer part n
\* and its spelling: "int" has no fraction and no exponent (7), "frac0"
\* and "frac5" have a fraction (7.0, 7.5)
Json(t, n, form, s, b) == [t |-> t, n |-> n, form |-> form, s |-> s, b |-> b]

ParamStrings == {"abc", "AAECAw==", "!!"}

JsonParams ==
    { Json("number", n, f, "", FALSE) :
         n \in I64Min - 1 .. U64Max + 1, f \in {"int", "frac0", "frac5"} }
    \cup { Json("string", 0, "", str, FALSE) : str \in ParamStrings }
    \cup { Json("bool", 0, "", "", b) : b \in BOOLEAN }
    \cup { Json("null", 0, "", "", FALSE),
           Json("array", 0, "", "", FALSE),
           Json("object", 0, "", "", FALSE) }

\* an f64: n or n + 1/2
F64(n, half) == [n |-> n, half |-> half]

\* what serde_json hands to serde for a JSON value (serde's buffered
\* Content): a number without fraction and exponent is a u64 if it is not
\* negative and fits, an i64 if it is negative and fits, else an f64
Content(t, n, x, s, b) == [t |-> t, n |-> n, x |-> x, s |-> s, b |-> b]

jsonContent(j) ==
    CASE j.t = "number" ->
            IF j.form = "int" /\ j.n >= 0 /\ j.n <= U64Max
            THEN Content("u64", j.n, F64(0, FALSE), "", FALSE)
            ELSE IF j.form = "int" /\ j.n < 0 /\ j.n >= I64Min
            THEN Content("i64", j.n, F64(0, FALSE), "", FALSE)
            ELSE Content("f64", 0, F64(j.n, j.form = "frac5"), "", FALSE)
      [] j.t = "string" -> Content("str", 0, F64(0, FALSE), j.s, FALSE)
      [] j.t = "bool"   -> Content("bool", 0, F64(0, FALSE), "", j.b)
      [] j.t = "null"   -> Content("unit", 0, F64(0, FALSE), "", FALSE)
      [] j.t = "array"  -> Content("seq", 0, F64(0, FALSE), "", FALSE)
      [] j.t = "object" -> Content("map", 0, F64(0, FALSE), "", FALSE)

\* enum ErlangValue
Erlang(variant, n, x, s, b) ==
    [variant |-> variant, n |-> n, x |-> x, s |-> s, b |-> b]
Integer(n) == Erlang("Integer", n, F64(0, FALSE), "", FALSE)
Float(x)   == Erlang("Float", 0, x, "", FALSE)
Text(s)    == Erlang("Text", 0, F64(0, FALSE), s, FALSE)
Boolean(b) == Erlang("Boolean", 0, F64(0, FALSE), "", b)
Null       == Erlang("Null", 0, F64(0, FALSE), "", FALSE)
Blob(s)    == Erlang("Blob", 0, F64(0, FALSE), s, FALSE)

\* serde's attempt to deserialize one variant of ErlangValue from the
\* buffered content: an i64 takes an integer that fits, an f64 takes any
\* number, a String takes a string, bool a boolean, the unit variant null
tryVariant(variant, c) ==
    CASE variant = "Integer" ->
            IF c.t = "i64" \/ (c.t = "u64" /\ c.n <= I64Max)
            THEN Some(Integer(c.n)) ELSE None
      [] variant = "Float" ->
            IF c.t = "f64" THEN Some(Float(c.x))
            ELSE IF c.t \in {"u64", "i64"}
                 THEN Some(Float(F64(c.n, FALSE))) ELSE None
      [] variant = "Text" ->
            IF c.t = "str" THEN Some(Text(c.s)) ELSE None
      [] variant = "Boolean" ->
            IF c.t = "bool" THEN Some(Boolean(c.b)) ELSE None
      [] variant = "Null" ->
            IF c.t = "unit" THEN Some(Null) ELSE None
      [] variant = "Blob" ->
            IF c.t = "str" THEN Some(Blob(c.s)) ELSE None

\* mutant of the declaration order of ErlangValue: Blob before Text
VariantOrderBlobFirst ==
    << "Integer", "Float", "Blob", "Text", "Boolean", "Null" >>

\* the variants of ErlangValue in declaration order
VariantOrder == << "Integer", "Float", "Text", "Boolean", "Null", "Blob" >>

\* #[serde(untagged)]: the first variant, from the k-th on, that takes the
\* content; None when no variant does
RECURSIVE firstVariant(_, _)
firstVariant(c, k) ==
    IF k > Len(VariantOrder)
    THEN None
    ELSE LET v == tryVariant(VariantOrder[k], c)
         IN  IF v # None THEN v ELSE firstVariant(c, k + 1)

\* Deserialize for ErlangValue
decodeValue(j) == firstVariant(jsonContent(j), 1)

\* Deserialize for Box<[ErlangValue]>: every element decodes, or the
\* whole sequence fails
decodeParams(js) ==
    IF \E i \in 1 .. Len(js) : decodeValue(js[i]) = None
    THEN None
    ELSE Some([i \in 1 .. Len(js) |-> decodeValue(js[i])[1]])

\* general_purpose::STANDARD.decode on the strings of ParamStrings
base64Decode(str) ==
    IF str = "AAECAw==" THEN Some(<< 0, 1, 2, 3 >>) ELSE None

\* duckdb values bound as parameters; `decoded` tells that the value went
\* through the base64 decoder
Sql(t, n, x, s, b, bytes, decoded) ==
    [t |-> t, n |-> n, x |-> x, s |-> s, b |-> b, bytes |-> bytes,
     decoded |-> decoded]

\* ToSql for ErlangValue
to_sql(v) ==
    CASE v.variant = "Integer" ->
            Sql("BigInt", v.n, F64(0, FALSE), "", FALSE, << >>, FALSE)
      [] v.variant = "Float" ->
            Sql("Double", 0, v.x, "", FALSE, << >>, FALSE)
      [] v.variant = "Text" ->
            Sql("Text", 0, F64(0, FALSE), v.s, FALSE, << >>, FALSE)
      [] v.variant = "Boolean" ->
            Sql("Boolean", 0, F64(0, FALSE), "", v.b, << >>, FALSE)
      [] v.variant = "Null" ->
            Sql("Null", 0, F64(0, FALSE), "", FALSE, << >>, FALSE)
      [] v.variant = "Blob" ->
            LET bytes == base64Decode(v.s)
            IN  Sql("Blob", 0, F64(0, FALSE), "", FALSE,
                    IF bytes = None THEN << >> ELSE bytes[1], TRUE)

\* ---------------------------------------------------------------- commands
\* handle values a client may send: every slot index and the first index
\* past the end of the cache
HandleValues == 0 .. Capacity

\* enum Command (params are bound by the engine and only influence its
\* outcome, which is nondeterministic here)
Cmd(command, stmt, cursor, query) ==
    [command |-> command, stmt |-> stmt, cursor |-> cursor, query |-> query]

Commands ==
    { Cmd(c, 0, 0, "") : c \in {"begin", "commit", "rollback", "status"} }
    \cup { Cmd("prepare", 0, 0, q) : q \in Queries }
    \cup { Cmd(c, h, 0, "") : c \in {"close", "execute", "declare"},
                              h \in HandleValues }
    \cup { Cmd(c, 0, h, "") : c \in {"fetch", "deallocate"},
                              h \in HandleValues }

NoCommand == Cmd("none", 0, 0, "")

\* mutant of the Commit and Rollback arms: their SQL texts are exchanged
SimpleSQLSwapped(command) ==
    CASE command = "begin"    -> "BEGIN"
      [] command = "commit"   -> "ROLLBACK"
      [] command = "rollback" -> "COMMIT"

SimpleSQL(command) ==
    CASE command = "begin"    -> "BEGIN"
      [] command = "commit"   -> "COMMIT"
      [] command = "rollback" -> "ROLLBACK"

\* ---------------------------------------------------------------- state
VARIABLES
    statements,     \* main's `statements`: [storage, idx] of the Cache
    pc,             \* "read", "dispatch", "write", "returned", "panicked"
    panic,          \* the panic message once pc = "panicked"
    cmd,            \* the command decoded from the last line read
    result,         \* the Response of the last command dispatched
    nRead,          \* lines read from stdin
    nWritten,       \* lines written to stdout
    nextId,         \* identity of the next statement the engine prepares
    resultFor,      \* history: the line `result` was computed for
    writtenFor,     \* history: the line the last written response answers
    engineErr,      \* history: engine failure met by the last dispatch
    engineLog,      \* history: the engine calls made by the last dispatch
    issued,         \* history: <<statement id, handle>> handed out, not closed
    everIssued,     \* history: every <<statement id, handle>> handed out
    prevClose,      \* history: handle of the preceding command when that was
                    \* a Close, else -1
    codec           \* the params of a command on their way from the line to
                    \* the engine: [stage, json, values, sql]

vars == << statements, pc, panic, cmd, result, nRead, nWritten, nextId,
           resultFor, writtenFor, engineErr, engineLog, issued, everIssued,
           prevClose, codec >>

history == << issued, everIssued >>

\* no params under way
NoParams == [stage |-> "idle", json |-> << >>, values |-> << >>,
             sql |-> << >>]

Init ==
    /\ statements = with_capacity(Capacity)
    /\ pc = "read"
    /\ panic = ""
    /\ cmd = NoCommand
    /\ result = ResponseEmpty
    /\ nRead = 0
    /\ nWritten = 0
    /\ nextId = 1
    /\ resultFor = 0
    /\ writtenFor = 0
    /\ engineErr = "none"
    /\ engineLog = << >>
    /\ issued = {}
    /\ everIssued = {}
    /\ prevClose = -1
    /\ codec = NoParams

\* ---------------------------------------------------------------- the loop
\* `for line in reader.lines()` yields a line that decodes as a Command
ReadLine ==
    /\ pc = "read"
    /\ nRead < MaxLines
    /\ \E c \in Commands : cmd' = c
    /\ nRead' = nRead + 1
    /\ pc' = "dispatch"
    /\ prevClose' = IF cmd.command = "close" THEN cmd.stmt ELSE -1
    /\ UNCHANGED << statements, panic, result, nWritten, nextId, resultFor,
                    writtenFor, engineErr, engineLog, history, codec >>

\* the input stream is closed: the for loop ends and main returns
ReadEof ==
    /\ pc = "read"
    /\ pc' = "returned"
    /\ UNCHANGED << statements, panic, cmd, result, nRead, nWritten, nextId,
                    resultFor, writtenFor, engineErr, engineLog, history,
                    prevClose, codec >>

\* `line.expect(..)` on a read error
ReadError ==
    /\ pc = "read"
    /\ pc' = "panicked"
    /\ panic' = ReadPanic
    /\ UNCHANGED << statements, cmd, result, nRead, nWritten, nextId,
                    resultFor, writtenFor, engineErr, engineLog, history,
                    prevClose, codec >>

\* mutant of DecodeError: the line is reported and skipped
DecodeErrorSkips ==
    /\ pc = "read"
    /\ nRead < MaxLines
    /\ nRead' = nRead + 1
    /\ UNCHANGED << statements, pc, panic, cmd, result, nWritten, nextId,
                    resultFor, writtenFor, engineErr, engineLog, history,
                    prevClose, codec >>

\* `json::from_str(&line).expect(..)` on a line that is not a Command
DecodeError ==
    /\ pc = "read"
    /\ nRead < MaxLines
    /\ nRead' = nRead + 1
    /\ pc' = "panicked"
    /\ panic' = DecodePanic
    /\ UNCHANGED << statements, cmd, result, nWritten, nextId, resultFor,
                    writtenFor, engineErr, engineLog, history, prevClose, codec >>

\* a handler returned `response`: it becomes `result` and is written next
Respond(response) ==
    /\ result' = response
    /\ resultFor' = nRead
    /\ pc' = "write"
    /\ panic' = panic

\* a handler panicked: the process terminates, nothing else changes
Panics(message) ==
    /\ pc' = "panicked"
    /\ panic' = message
    /\ UNCHANGED << statements, result, resultFor, nextId, history >>

\* Command::Prepare { query } => prepare(&conn, &query, &mut statements)
DoPrepare ==
    /\ pc = "dispatch"
    /\ cmd.command = "prepare"
    /\ \E ok \in PrepareOutcomes(cmd.query) :
          LET r == prepare(statements, ok,
                           [id |-> nextId, query |-> cmd.query])
              new == IF r.handle = None THEN {}
                     ELSE { << nextId, r.handle[1] >> }
          IN  /\ statements' = r.cache
              /\ nextId' = IF ok THEN nextId + 1 ELSE nextId
              /\ issued' = issued \cup new
              /\ everIssued' = everIssued \cup new
              /\ engineErr' = PrepareErr(ok)
              /\ engineLog' = prepareCalls(cmd.query, ok)
              /\ Respond(r.response)
    /\ UNCHANGED << cmd, nRead, nWritten, writtenFor, prevClose, codec >>

\* Command::Close { stmt } => { statements.remove(stmt); Ok(empty) }
DoClose ==
    /\ pc = "dispatch"
    /\ cmd.command = "close"
    /\ engineErr' = "none"
    /\ engineLog' = << >>
    /\ IF inBounds(statements, cmd.stmt)
       THEN /\ statements' = remove(statements, cmd.stmt)
            /\ issued' = { p \in issued : p[2] # cmd.stmt }
            /\ Respond(closeResponse(statements, cmd.stmt))
            /\ UNCHANGED << nextId, everIssued >>
       ELSE Panics(IndexPanic)
    /\ UNCHANGED << cmd, nRead, nWritten, writtenFor, prevClose, codec >>

\* mutant of DoExecute: the statement is taken out of its slot to be run
DoExecuteTakes ==
    /\ pc = "dispatch"
    /\ cmd.command = "execute"
    /\ IF inBounds(statements, cmd.stmt)
       THEN /\ LET found == get_mut(statements, cmd.stmt)
               IN  IF found = None
                   THEN /\ engineErr' = "none"
                        /\ engineLog' = << >>
                        /\ Respond(ResponseError(InvalidCacheIndexMsg))
                   ELSE \E o \in ExecOutcomes :
                           /\ engineErr' = ExecuteErr(o)
                           /\ engineLog' = executeCalls(found[1], o)
                           /\ Respond(execute(found[1], o))
            /\ statements' = remove(statements, cmd.stmt)
            /\ UNCHANGED << nextId, history >>
       ELSE /\ engineErr' = "none"
            /\ engineLog' = << >>
            /\ Panics(IndexPanic)
    /\ UNCHANGED << cmd, nRead, nWritten, writtenFor, prevClose, codec >>

\* Command::Execute { stmt, params } =>
\*     statements.get_mut(stmt).ok_or(InvalidCacheIndex).and_then(execute)
DoExecute ==
    /\ pc = "dispatch"
    /\ cmd.command = "execute"
    /\ IF inBounds(statements, cmd.stmt)
       THEN /\ LET found == get_mut(statements, cmd.stmt)
               IN  IF found = None
                   THEN /\ engineErr' = "none"
                        /\ engineLog' = << >>
                        /\ Respond(ResponseError(InvalidCacheIndexMsg))
                   ELSE \E o \in ExecOutcomes :
                           /\ engineErr' = ExecuteErr(o)
                           /\ engineLog' = executeCalls(found[1], o)
                           /\ Respond(execute(found[1], o))
            /\ UNCHANGED << statements, nextId, history >>
       ELSE /\ engineErr' = "none"
            /\ engineLog' = << >>
            /\ Panics(IndexPanic)
    /\ UNCHANGED << cmd, nRead, nWritten, writtenFor, prevClose, codec >>

\* Command::Begin / Commit / Rollback => simple_command(&conn, "...")
DoSimple ==
    /\ pc = "dispatch"
    /\ cmd.command \in {"begin", "commit", "rollback"}
    /\ \E prepOk \in PrepareOutcomes(SimpleSQL(cmd.command)),
          execOk \in BOOLEAN :
          /\ engineErr' = IF prepOk /\ ~execOk THEN "execute"
                           ELSE PrepareErr(prepOk)
          /\ engineLog' = simple_commandCalls(SimpleSQL(cmd.command),
                                              prepOk, execOk)
          /\ Respond(simple_command(prepOk, execOk))
    /\ UNCHANGED << statements, nextId, history >>
    /\ UNCHANGED << cmd, nRead, nWritten, writtenFor, prevClose, codec >>

\* mutant of DoStatus: the probe runs a statement on the engine
DoStatusPings ==
    /\ pc = "dispatch"
    /\ cmd.command = "status"
    /\ \E prepOk \in BOOLEAN, execOk \in BOOLEAN :
          /\ engineErr' = IF prepOk /\ ~execOk THEN "execute"
                           ELSE PrepareErr(prepOk)
          /\ engineLog' = simple_commandCalls("SELECT 1", prepOk, execOk)
          /\ Respond(simple_command(prepOk, execOk))
    /\ UNCHANGED << statements, nextId, history, cmd, nRead, nWritten,
                    writtenFor, prevClose, codec >>

\* Command::Status => Ok(Response::empty())
DoStatus ==
    /\ pc = "dispatch"
    /\ cmd.command = "status"
    /\ engineErr' = "none"
    /\ engineLog' = << >>
    /\ Respond(ResponseEmpty)
    /\ UNCHANGED << statements, nextId, history, cmd, nRead, nWritten,
                    writtenFor, prevClose, codec >>

\* mutant of DoUnsupported: the reserved commands are accepted and ignored
DoUnsupportedIgnored ==
    /\ pc = "dispatch"
    /\ cmd.command \in {"declare", "fetch", "deallocate"}
    /\ engineErr' = "none"
    /\ engineLog' = << >>
    /\ Respond(ResponseEmpty)
    /\ UNCHANGED << statements, nextId, history, cmd, nRead, nWritten,
                    writtenFor, prevClose, codec >>

\* _ => Err(SQLError::Unsupported)
DoUnsupported ==
    /\ pc = "dispatch"
    /\ cmd.command \in {"declare", "fetch", "deallocate"}
    /\ engineErr' = "none"
    /\ engineLog' = << >>
    /\ Respond(ResponseError(UnsupportedMsg))
    /\ UNCHANGED << statements, nextId, history, cmd, nRead, nWritten,
                    writtenFor, prevClose, codec >>

\* mutant of WriteOk: the response is dropped and the next line is read
WriteSkipped ==
    /\ pc = "write"
    /\ pc' = "read"
    /\ UNCHANGED << statements, panic, cmd, result, nRead, nWritten, nextId,
                    resultFor, writtenFor, engineErr, engineLog, history,
                    prevClose, codec >>

\* write!(stdout, "{}\n", response) returned Ok
WriteOk ==
    /\ pc = "write"
    /\ nWritten' = nWritten + 1
    /\ writtenFor' = resultFor
    /\ pc' = "read"
    /\ UNCHANGED << statements, panic, cmd, result, nRead, nextId,
                    resultFor, engineErr, engineLog, history, prevClose, codec >>

\* the write failed with ErrorKind::BrokenPipe: main returns
WriteBrokenPipe ==
    /\ pc = "write"
    /\ pc' = "returned"
    /\ UNCHANGED << statements, panic, cmd, result, nRead, nWritten, nextId,
                    resultFor, writtenFor, engineErr, engineLog, history,
                    prevClose, codec >>

\* the write failed with any other error: panic
WriteError ==
    /\ pc = "write"
    /\ pc' = "panicked"
    /\ panic' = WritePanic
    /\ UNCHANGED << statements, cmd, result, nRead, nWritten, nextId,
                    resultFor, writtenFor, engineErr, engineLog, history,
                    prevClose, codec >>

Next ==
    \/ ReadLine
    \/ ReadEof
    \/ ReadError
    \/ DecodeError
    \/ DoPrepare
    \/ DoClose
    \/ DoExecute
    \/ DoSimple
    \/ DoStatus
    \/ DoUnsupported
    \/ WriteOk
    \/ WriteBrokenPipe
    \/ WriteError

Spec == Init /\ [][Next]_vars

\* ---------------------------------------------------------------- store alone
\* Cache::store as a function of the cache: every occupancy of the slots
\* and every cursor position, with the dispatch loop applying it
StoredBefore == [id |-> 0, query |-> "SELECT 1 AS x"]

Caches ==
    { [storage |-> f, idx |-> c] :
         f \in [0 .. Capacity - 1 -> {None, Some(StoredBefore)}],
         c \in 0 .. Capacity - 1 }

InitStore ==
    /\ statements \in Caches
    /\ pc = "read"
    /\ panic = ""
    /\ cmd = NoCommand
    /\ result = ResponseEmpty
    /\ nRead = 0
    /\ nWritten = 0
    /\ nextId = 1
    /\ resultFor = 0
    /\ writtenFor = 0
    /\ engineErr = "none"
    /\ engineLog = << >>
    /\ issued = {}
    /\ everIssued = {}
    /\ prevClose = -1
    /\ codec = NoParams

\* the lines that reach Cache::store and Cache::remove: Prepare of a
\* statement and Close of a slot
StoreCommands ==
    { Cmd("prepare", 0, 0, q) : q \in Queries \ Malformed }
    \cup { Cmd("close", h, 0, "") : h \in 0 .. Capacity - 1 }

\* ReadLine for a line of StoreCommands
ReadStoreLine ==
    /\ pc = "read"
    /\ nRead < MaxLines
    /\ \E c \in StoreCommands : cmd' = c
    /\ nRead' = nRead + 1
    /\ pc' = "dispatch"
    /\ prevClose' = IF cmd.command = "close" THEN cmd.stmt ELSE -1
    /\ UNCHANGED << statements, panic, result, nWritten, nextId, resultFor,
                    writtenFor, engineErr, engineLog, history, codec >>

NextStore ==
    \/ ReadStoreLine
    \/ ReadEof
    \/ DoPrepare
    \/ DoClose
    \/ WriteOk

SpecStore == InitStore /\ [][NextStore]_vars

\* ---------------------------------------------------------------- params alone
\* the way of the params of a command: decoded from the JSON of the line
\* with the rest of the Command, then bound to the statement
ParamLists == UNION { [1 .. k -> JsonParams] : k \in 0 .. MaxParams }

InitDecode ==
    /\ statements = with_capacity(Capacity)
    /\ pc = "read"
    /\ panic = ""
    /\ cmd = NoCommand
    /\ result = ResponseEmpty
    /\ nRead = 0
    /\ nWritten = 0
    /\ nextId = 1
    /\ resultFor = 0
    /\ writtenFor = 0
    /\ engineErr = "none"
    /\ engineLog = << >>
    /\ issued = {}
    /\ everIssued = {}
    /\ prevClose = -1
    /\ \E js \in ParamLists :
          codec = [stage |-> "wire", json |-> js, values |-> << >>,
                   sql |-> << >>]

\* json::from_str(&line) on the params of the line: stage "failed" is the
\* Err that main's expect turns into a panic
DecodeParams ==
    /\ codec.stage = "wire"
    /\ LET d == decodeParams(codec.json)
       IN  codec' = IF d = None
                    THEN [codec EXCEPT !.stage = "failed"]
                    ELSE [codec EXCEPT !.stage = "decoded", !.values = d[1]]
    /\ UNCHANGED << statements, pc, panic, cmd, result, nRead, nWritten,
                    nextId, resultFor, writtenFor, engineErr, engineLog,
                    history, prevClose >>

\* params_from_iter(values): the engine binds each value through to_sql
BindParams ==
    /\ codec.stage = "decoded"
    /\ codec' = [codec EXCEPT
                   !.stage = "bound",
                   !.sql = [i \in 1 .. Len(codec.values) |->
                               to_sql(codec.values[i])]]
    /\ UNCHANGED << statements, pc, panic, cmd, result, nRead, nWritten,
                    nextId, resultFor, writtenFor, engineErr, engineLog,
                    history, prevClose >>

NextDecode ==
    \/ DecodeParams
    \/ BindParams

SpecDecode == InitDecode /\ [][NextDecode]_vars

\* ---------------------------------------------------------------- claims
Slots       == DOMAIN statements.storage
Occupied(h) == statements.storage[h] # None
Full        == \A h \in Slots : Occupied(h)
Terminated  == pc \in {"returned", "panicked"}
HandleRow(h) == << << OptionToJson(h) >> >>

\* C1: handle uniqueness under churn.  No two statements handed out and not
\* yet closed share a handle; every such handle resolves to the statement it
\* was handed out for; and a statement whose handle was closed is never what
\* that handle resolves to, also after the handle was handed out again.
C1_HandleUniqueness ==
    /\ \A p, q \in issued : p[2] = q[2] => p[1] = q[1]
    /\ \A p \in issued :
          /\ p[2] \in Slots
          /\ Occupied(p[2])
          /\ get_mut(statements, p[2])[1].id = p[1]
    /\ \A q \in everIssued \ issued :
          q[2] \in Slots =>
             \/ ~Occupied(q[2])
             \/ get_mut(statements, q[2])[1].id # q[1]

\* a handle is live for the second time while another handle is live too
C1_Witness ==
    \E p \in issued, q \in everIssued \ issued, r \in issued :
        p[2] = q[2] /\ r[2] # p[2]

\* C2: handle stability.  The cache always has exactly Capacity slots, and
\* an occupied slot keeps its statement across every step that is not the
\* Close of that very slot.
C2_HandleStability ==
    /\ [](Slots = 0 .. Capacity - 1)
    /\ [][\A h \in Slots :
            (Occupied(h) /\ ~(pc = "dispatch" /\ cmd.command = "close"
                                              /\ cmd.stmt = h))
            => statements'.storage[h] = statements.storage[h]]_vars

\* every slot is occupied and a further Prepare has just been answered
C2_Witness ==
    /\ pc = "write"
    /\ cmd.command = "prepare"
    /\ engineErr = "none"
    /\ Full
    /\ Cardinality(issued) = Capacity
    /\ result.rows = HandleRow(None)

\* C3: capacity.  A store into a cache whose slots are all occupied returns
\* None and changes no slot; a store into a cache with an empty slot (as
\* after a remove of an occupied slot) succeeds and fills an empty slot.
C3_CapacityInvariant ==
    [][(pc = "dispatch" /\ cmd.command = "prepare" /\ pc' = "write"
                        /\ engineErr' = "none")
       => IF Full
          THEN statements' = statements /\ result'.rows = HandleRow(None)
          ELSE \E h \in Slots :
                  /\ ~Occupied(h)
                  /\ statements'.storage[h] # None
                  /\ result'.rows = HandleRow(Some(h))]_vars

\* a store has succeeded after an earlier store had failed for lack of room
C3_Witness ==
    /\ pc = "write"
    /\ cmd.command = "prepare"
    /\ engineErr = "none"
    /\ result.rows # HandleRow(None)
    /\ Cardinality(everIssued) = Capacity + 1
    /\ nextId - 1 = Capacity + 2

\* C4: Execute with a handle that refers to no live statement is answered
\* with the invalid-cache-index Error and never panics.
C4_UnknownHandleIsError ==
    (/\ cmd.command = "execute"
     /\ pc # "dispatch"
     /\ ~(cmd.stmt \in Slots /\ Occupied(cmd.stmt)))
    => /\ panic # IndexPanic
       /\ resultFor = nRead
       /\ result = ResponseError(InvalidCacheIndexMsg)

\* C5: Close is answered Ok(empty) for every handle value and never
\* terminates the loop.
C5_CloseAlwaysOk ==
    (cmd.command = "close" /\ pc # "dispatch")
    => /\ panic # IndexPanic
       /\ resultFor = nRead
       /\ result = ResponseEmpty

\* C6: Close idempotence.  Every Close of a handle that Prepare has handed
\* out is answered Ok(empty) and leaves that slot empty and the others as
\* they were; when the preceding command was a Close of the same handle the
\* cache is left exactly as the first Close left it.
C6_CloseIdempotent ==
    [][(/\ pc = "dispatch"
        /\ cmd.command = "close"
        /\ \E q \in everIssued : q[2] = cmd.stmt)
       => /\ pc' = "write"
          /\ result' = ResponseEmpty
          /\ statements'.storage[cmd.stmt] = None
          /\ \A h \in Slots \ {cmd.stmt} :
                statements'.storage[h] = statements.storage[h]
          /\ prevClose = cmd.stmt => statements' = statements]_vars

\* the second of two successive Closes of a handed-out handle was answered
C6_Witness ==
    /\ pc = "write"
    /\ cmd.command = "close"
    /\ prevClose = cmd.stmt
    /\ \E q \in everIssued : q[2] = cmd.stmt
    /\ \E p \in issued : TRUE

\* C7: a Prepare answered Ok carries one column `ref` and one row whose
\* value is the handle under which the new statement is stored.
C7_PrepareOkHasHandle ==
    (cmd.command = "prepare" /\ pc # "dispatch" /\ result.status = "ok")
    => /\ result.columns = << << "ref", "UInt32" >> >>
       /\ Len(result.rows) = 1
       /\ Len(result.rows[1]) = 1
       /\ result.rows[1][1].t = "number"
       /\ result.rows[1][1].v \in Slots
       /\ get_mut(statements, result.rows[1][1].v) =
             Some([id |-> nextId - 1, query |-> cmd.query])

\* C8: a Prepare the engine refuses is answered with the preparation Error
\* and leaves the cache (slots and cursor) as it was.
C8_FailedPrepareFrame ==
    [][(pc = "dispatch" /\ cmd.command = "prepare"
                        /\ engineErr' = "prepare")
       => /\ pc' = "write"
          /\ result' = ResponseError(PreparationMsg)
          /\ statements' = statements]_vars

\* a refused Prepare was answered while a statement was stored
C8_Witness ==
    /\ pc = "write"
    /\ cmd.command = "prepare"
    /\ engineErr = "prepare"
    /\ \E h \in Slots : Occupied(h)
    /\ ~Full

\* C9: request/response ordering.  While the process runs, the responses
\* written number the lines read or one less; a line is read only when
\* every earlier line has been answered; the k-th response written is the
\* one computed for the k-th line; one response is computed per line.
C9_Ordering ==
    /\ [](~Terminated =>
            /\ nWritten = nRead \/ nWritten = nRead - 1
            /\ pc = "read" => nWritten = nRead
            /\ nWritten > 0 => writtenFor = nWritten)
    /\ [][/\ nRead' # nRead =>
               nRead' = nRead + 1 /\ nWritten = nRead /\ pc = "read"
          /\ nWritten' # nWritten =>
               /\ nWritten' = nWritten + 1
               /\ pc = "write"
               /\ resultFor = nWritten'
               /\ writtenFor' = nWritten'
          /\ resultFor' # resultFor =>
               /\ pc = "dispatch"
               /\ resultFor' = nRead
               /\ resultFor = nRead - 1]_vars

\* the third line has been dispatched after two responses were written
C9_Witness ==
    /\ pc = "write"
    /\ nRead = 3
    /\ nWritten = 2
    /\ writtenFor = 2
    /\ resultFor = 3

\* the Error message of an engine failure
EngineErrMsg(err) ==
    CASE err = "prepare" -> PreparationMsg
      [] err = "execute" -> ExecutionMsg
      [] err = "row"     -> RowProcessingMsg

\* C10: an engine failure met while a command is dispatched becomes the
\* Error response of that command, the process does not terminate in the
\* dispatch, and once that response is written the loop reads again.
C10_EngineFailureIsError ==
    /\ [][(pc = "dispatch" /\ engineErr' # "none")
          => /\ pc' = "write"
             /\ resultFor' = nRead
             /\ result' = ResponseError(EngineErrMsg(engineErr'))]_vars
    /\ [][(pc = "write" /\ engineErr # "none" /\ nWritten' = nWritten + 1)
          => pc' = "read" /\ writtenFor' = nRead]_vars

\* after the Error response of an engine execution failure was written, the next
\* line has been read
C10_Witness ==
    /\ pc = "dispatch"
    /\ engineErr = "execute"
    /\ result = ResponseError(ExecutionMsg)
    /\ writtenFor = nRead - 1
    /\ nWritten = nRead - 1
    /\ nRead >= 2

\* C11: Declare, Fetch and Deallocate are answered with the Unsupported
\* Error whatever their argument and whatever the cache holds; the cache is
\* not changed, the engine is not called and the process goes on to write.
C11_ReservedUnsupported ==
    [][(pc = "dispatch" /\ cmd.command \in {"declare", "fetch", "deallocate"})
       => /\ pc' = "write"
          /\ result' = ResponseError(UnsupportedMsg)
          /\ resultFor' = nRead
          /\ statements' = statements
          /\ engineLog' = << >>
          /\ nextId' = nextId]_vars

\* a Fetch with a cursor past the end of the cache was answered while a
\* statement was stored
C11_Witness ==
    /\ pc = "write"
    /\ cmd.command = "fetch"
    /\ cmd.cursor = Capacity
    /\ resultFor = nRead
    /\ result = ResponseError(UnsupportedMsg)
    /\ \E h \in Slots : Occupied(h)

\* C12: on an input of well-formed lines the loop ends by returning, never
\* by a panic of a handler, and it returns either with every line read
\* answered or, on a broken pipe, with the last response unwritten.
C12_CleanTermination ==
    /\ pc = "panicked" => panic \in {ReadPanic, DecodePanic, WritePanic}
    /\ pc = "returned" =>
          \/ nWritten = nRead
          \/ nWritten = nRead - 1 /\ resultFor = nRead

\* C13: a line that does not decode, a read error and a write error other
\* than a broken pipe end the process by a panic: no response is computed
\* or written for the line, and nothing is read, dispatched or written
\* afterwards.
C13_FatalFailures ==
    /\ [][(pc = "read" /\ nRead' = nRead + 1 /\ pc' # "dispatch")
          => /\ pc' = "panicked"
             /\ panic' = DecodePanic
             /\ UNCHANGED << statements, result, resultFor, nWritten,
                             writtenFor >>]_vars
    /\ [](pc = "panicked" /\ panic = DecodePanic =>
             nWritten = nRead - 1 /\ resultFor = nRead - 1)
    /\ [](pc = "panicked" /\ panic = ReadPanic => nWritten = nRead)
    /\ [](pc = "panicked" /\ panic = WritePanic =>
             nWritten = nRead - 1 /\ writtenFor = nRead - 1)
    /\ [][pc # "panicked"]_vars

\* the process panicked on an undecodable third line with input left
C13_Witness ==
    /\ pc = "panicked"
    /\ panic = DecodePanic
    /\ nRead = 3
    /\ nWritten = 2
    /\ resultFor = 2
    /\ nRead < MaxLines

\* C14: Status is answered Ok with no columns, no rows and num_rows 0 in
\* every state of the cache, and the engine is not called.
C14_StatusEmpty ==
    [][(pc = "dispatch" /\ cmd.command = "status")
       => /\ pc' = "write"
          /\ result' = ResponseOk(<< >>, << >>, 0)
          /\ resultFor' = nRead
          /\ engineLog' = << >>
          /\ statements' = statements]_vars

\* Status was answered Ok while every slot of the cache was occupied
C14_Witness ==
    /\ pc = "write"
    /\ cmd.command = "status"
    /\ resultFor = nRead
    /\ result.status = "ok"
    /\ Full

\* C15: after a store that returned handle h the cursor of the cache is h.
C15_CursorFollowsStore ==
    (/\ cmd.command = "prepare"
     /\ pc # "dispatch"
     /\ result.status = "ok"
     /\ result.rows # HandleRow(None))
    => statements.idx = result.rows[1][1].v

\* position of slot h in the cyclic order that starts at the cursor
CyclicRank(h) == (h - statements.idx + Capacity) % Capacity

\* C16: store reads at most Capacity slots; it returns the first empty slot
\* in cyclic order from the cursor, puts the statement there and changes no
\* other slot; it returns None, changing nothing, exactly when every slot
\* is occupied.
C16_StoreFirstEmptyCyclic ==
    [][(pc = "dispatch" /\ cmd.command = "prepare" /\ pc' = "write"
                        /\ engineErr' = "none")
       => LET empty == { h \in Slots : ~Occupied(h) }
              read  == examined(statements.storage, statements.idx,
                                statements.idx)
          IN  IF empty = {}
              THEN /\ statements' = statements
                   /\ result'.rows = HandleRow(None)
                   /\ read = Capacity
              ELSE LET h == CHOOSE e \in empty :
                              \A g \in empty : CyclicRank(e) <= CyclicRank(g)
                   IN  /\ statements'.storage =
                             [statements.storage EXCEPT
                                ![h] = Some([id |-> nextId,
                                             query |-> cmd.query])]
                       /\ result'.rows = HandleRow(Some(h))
                       /\ read = CyclicRank(h) + 1
                       /\ read <= Capacity]_vars

\* a store has wrapped around the end of the cache: the cursor is not at
\* slot 0 and the handle returned lies before the cursor
C16_Witness ==
    /\ pc = "write"
    /\ cmd.command = "prepare"
    /\ engineErr = "none"
    /\ result.rows # HandleRow(None)
    /\ result.rows[1][1].v < statements.idx

\* C17: when a value of a result row fails to convert, Execute answers
\* with the row-processing Error and not with Ok.
C17_ConversionFailureIsError ==
    (/\ cmd.command = "execute"
     /\ pc # "dispatch"
     /\ resultFor = nRead
     /\ \E k \in 1 .. Len(engineLog) :
           engineLog[k].op = "get" /\ ~engineLog[k].ok)
    => result = ResponseError(RowProcessingMsg)

\* C18: Begin, Commit and Rollback prepare one statement with the text
\* BEGIN, COMMIT or ROLLBACK, execute it only if it was prepared, leave the
\* cache alone, and answer Ok(empty) when both calls returned Ok, the
\* preparation Error when preparing failed and the execution Error when
\* executing failed.
C18_TransactionForwarding ==
    [][(pc = "dispatch" /\ cmd.command \in {"begin", "commit", "rollback"})
       => LET sql == CASE cmd.command = "begin"    -> "BEGIN"
                       [] cmd.command = "commit"   -> "COMMIT"
                       [] cmd.command = "rollback" -> "ROLLBACK"
              log == engineLog'
          IN  /\ pc' = "write"
              /\ resultFor' = nRead
              /\ statements' = statements
              /\ nextId' = nextId
              /\ Len(log) \in {1, 2}
              /\ log[1].op = "prepare" /\ log[1].sql = sql
              /\ Len(log) = 2 <=> log[1].ok
              /\ Len(log) = 2 => log[2].op = "execute" /\ log[2].sql = sql
              /\ result' = IF ~log[1].ok
                           THEN ResponseError(PreparationMsg)
                           ELSE IF ~log[2].ok
                                THEN ResponseError(ExecutionMsg)
                                ELSE ResponseEmpty]_vars

\* a Rollback whose execution the engine refused was answered while a
\* statement was stored
C18_Witness ==
    /\ pc = "write"
    /\ cmd.command = "rollback"
    /\ engineLog = << EngineCall("prepare", "ROLLBACK", TRUE),
                      EngineCall("execute", "ROLLBACK", FALSE) >>
    /\ result = ResponseError(ExecutionMsg)
    /\ \E h \in Slots : Occupied(h)

\* C19: the set of occupied slots changes only in the dispatch of a Prepare
\* the engine accepted, where one empty slot becomes occupied, and in the
\* dispatch of a Close of an occupied slot, where that slot becomes empty;
\* every other command, and a Prepare the engine refused, leaves the cache
\* as it was.
C19_RegistryFrame ==
    [][LET occ    == { h \in Slots : Occupied(h) }
           occNew == { h \in DOMAIN statements'.storage :
                          statements'.storage[h] # None }
       IN  /\ occNew # occ =>
                /\ pc = "dispatch"
                /\ \/ /\ cmd.command = "prepare"
                      /\ engineErr' = "none"
                      /\ result'.status = "ok"
                      /\ \E h \in Slots \ occ : occNew = occ \cup {h}
                   \/ /\ cmd.command = "close"
                      /\ cmd.stmt \in occ
                      /\ occNew = occ \ {cmd.stmt}
           /\ (pc = "dispatch" /\ cmd.command = "close"
                               /\ cmd.stmt \in occ)
                 => occNew = occ \ {cmd.stmt}
           /\ (pc = "dispatch" /\ cmd.command \notin {"prepare", "close"})
                 => statements' = statements
           /\ (pc = "dispatch" /\ cmd.command = "prepare"
                               /\ engineErr' = "prepare")
                 => statements' = statements]_vars

\* an Execute of a handed-out statement was answered Ok with a row and the
\* statement is still in its slot
C19_Witness ==
    /\ pc = "write"
    /\ cmd.command = "execute"
    /\ result.status = "ok"
    /\ result.num_rows = 1
    /\ cmd.stmt \in Slots
    /\ Occupied(cmd.stmt)
    /\ \E p \in issued : p[2] = cmd.stmt

\* C20: in an Ok response num_rows is the number of rows and every row has
\* one value per column; the responses to Close, Status, Begin, Commit and
\* Rollback have no columns, no rows and num_rows 0.
C20_OkResponseShape ==
    result.status = "ok" =>
       /\ result.num_rows = Len(result.rows)
       /\ \A r \in 1 .. Len(result.rows) :
             Len(result.rows[r]) = Len(result.columns)
       /\ (/\ pc # "dispatch"
           /\ resultFor = nRead
           /\ cmd.command \in {"close", "status", "begin", "commit",
                               "rollback"})
          => result = ResponseOk(<< >>, << >>, 0)

\* C21: a JSON parameter decodes to the first variant that takes it: a
\* number without fraction and exponent within the i64 range to Integer,
\* every other number to Float, every string to Text, a boolean to Boolean
\* and null to Null; every such value decodes; none decodes to Blob, and
\* no bound value has gone through the base64 decoder.
C21_ParameterDecoding ==
    /\ codec.stage \in {"decoded", "bound"} =>
          \A i \in 1 .. Len(codec.json) :
             LET j == codec.json[i]
                 v == codec.values[i]
                 fits == /\ j.t = "number"
                         /\ j.form = "int"
                         /\ I64Min <= j.n
                         /\ j.n <= I64Max
             IN  /\ fits => v = Integer(j.n)
                 /\ (j.t = "number" /\ ~fits) =>
                       v = Float(F64(j.n, j.form = "frac5"))
                 /\ j.t = "string" => v = Text(j.s)
                 /\ j.t = "bool" => v = Boolean(j.b)
                 /\ j.t = "null" => v = Null
                 /\ v.variant # "Blob"
    /\ codec.stage = "bound" =>
          \A i \in 1 .. Len(codec.sql) :
             codec.sql[i].t # "Blob" /\ ~codec.sql[i].decoded
    /\ codec.stage = "failed" =>
          \E i \in 1 .. Len(codec.json) :
             codec.json[i].t \in {"array", "object"}

\* a string that is valid base64 was bound as text next to an integer too
\* large for i64 that was bound as a double
C21_Witness ==
    /\ codec.stage = "bound"
    /\ \E i, k \in 1 .. Len(codec.json) :
          /\ codec.json[i] = Json("string", 0, "", "AAECAw==", FALSE)
          /\ codec.sql[i].t = "Text"
          /\ codec.json[k] = Json("number", U64Max, "int", "", FALSE)
          /\ codec.values[k].variant = "Float"
          /\ codec.sql[k].t = "Double"

====
